---- MODULE Spec2Model ----
(***************************************************************************)
(* Model of src/dz3.py: ConfigParser, the line-oriented parser/evaluator   *)
(* of the configuration language.                                          *)
(*                                                                         *)
(* Text is modelled as a sequence of one-character strings, so that the    *)
(* prefix tests and the regular expressions of the source are computed on  *)
(* characters.  A str VALUE is a sequence of code points.  A float is an   *)
(* exact reduced fraction n/d (rounding of IEEE doubles is not modelled).  *)
(***************************************************************************)
EXTENDS Integers, Sequences, FiniteSets, TLC

(***************************************************************************)
(* Bounds of the exploration.                                              *)
(***************************************************************************)
MaxLines == 5        \* lines read by the instance, over all its calls
MaxCalls == 2        \* calls of parse on the same ConfigParser instance
MaxEvalLines == 2    \* lines read when the input is made of EvalLines

(***************************************************************************)
(* Characters and the str methods the source uses.                         *)
(***************************************************************************)
Digits == <<"0", "1", "2", "3", "4", "5", "6", "7", "8", "9">>

Lower == <<"a", "b", "c", "d", "e", "f", "g", "h", "i", "j", "k", "l", "m",
           "n", "o", "p", "q", "r", "s", "t", "u", "v", "w", "x", "y", "z">>

Upper == <<"A", "B", "C", "D", "E", "F", "G", "H", "I", "J", "K", "L", "M",
           "N", "O", "P", "Q", "R", "S", "T", "U", "V", "W", "X", "Y", "Z">>

PunctChars == <<" ", "#", "(", ")", "*", "+", "-", ".", "/", ":", ";", "=",
                "@", "[", "]", "_", "{", "}", "\t", "\n">>

PunctCodes == <<32, 35, 40, 41, 42, 43, 45, 46, 47, 58, 59, 61,
                64, 91, 93, 95, 123, 125, 9, 10>>

IndexIn(seq, c) == CHOOSE i \in 1..Len(seq) : seq[i] = c

IsIn(seq, c) == \E i \in 1..Len(seq) : seq[i] = c

DigitSet == {Digits[i] : i \in 1..Len(Digits)}

AlphaSet == {Lower[i] : i \in 1..Len(Lower)} \cup {Upper[i] : i \in 1..Len(Upper)}

IsDigitChar(c) == c \in DigitSet

IsAlphaChar(c) == c \in AlphaSet

IsSpaceChar(c) == c \in {" ", "\t", "\n", "\r", "\f"}

\* ord(c): the code point of a character
Ord(c) ==
    IF IsIn(Digits, c) THEN 47 + IndexIn(Digits, c)
    ELSE IF IsIn(Lower, c) THEN 96 + IndexIn(Lower, c)
    ELSE IF IsIn(Upper, c) THEN 64 + IndexIn(Upper, c)
    ELSE PunctCodes[IndexIn(PunctChars, c)]

\* the code points of a text
CodePoints(s) == [i \in 1..Len(s) |-> Ord(s[i])]

\* s[a:b] of Python with 1-based inclusive bounds; empty when a > b
Slice(s, a, b) == IF a > b THEN <<>> ELSE SubSeq(s, a, b)

StartsWith(s, p) == Len(s) >= Len(p) /\ SubSeq(s, 1, Len(p)) = p

EndsWith(s, p) == Len(s) >= Len(p) /\ SubSeq(s, Len(s) - Len(p) + 1, Len(s)) = p

\* number of whitespace characters that end at position p, going backwards
RECURSIVE SpaceRunBack(_, _)
SpaceRunBack(s, p) ==
    IF p >= 1 /\ IsSpaceChar(s[p]) THEN 1 + SpaceRunBack(s, p - 1) ELSE 0

\* number of whitespace characters starting at position p (regex \s*, greedy)
RECURSIVE SpaceRun(_, _)
SpaceRun(s, p) ==
    IF p <= Len(s) /\ IsSpaceChar(s[p]) THEN 1 + SpaceRun(s, p + 1) ELSE 0

\* str.strip(): drop leading and trailing whitespace
Strip(s) == Slice(s, 1 + SpaceRun(s, 1), Len(s) - SpaceRunBack(s, Len(s)))

\* str.isdigit(): non-empty and decimal digits only
IsDigit(s) == Len(s) > 0 /\ \A i \in 1..Len(s) : IsDigitChar(s[i])

\* str.replace("\n", " ")
ReplaceNewline(s) == [i \in 1..Len(s) |-> IF s[i] = "\n" THEN " " ELSE s[i]]

\* number of non-whitespace characters starting at position p (regex \S+)
RECURSIVE NonSpaceRun(_, _)
NonSpaceRun(s, p) ==
    IF p <= Len(s) /\ ~IsSpaceChar(s[p]) THEN 1 + NonSpaceRun(s, p + 1) ELSE 0

\* length of the identifier [a-zA-Z_][a-zA-Z0-9_]* starting at p, 0 if none
RECURSIVE IdentTail(_, _)
IdentTail(s, p) ==
    IF p <= Len(s) /\ (IsAlphaChar(s[p]) \/ IsDigitChar(s[p]) \/ s[p] = "_")
    THEN 1 + IdentTail(s, p + 1) ELSE 0

IdentRun(s, p) ==
    IF p <= Len(s) /\ (IsAlphaChar(s[p]) \/ s[p] = "_")
    THEN 1 + IdentTail(s, p + 1) ELSE 0

\* value of a string of decimal digits
RECURSIVE DigitsValue(_)
DigitsValue(s) ==
    IF Len(s) = 0 THEN 0
    ELSE 10 * DigitsValue(SubSeq(s, 1, Len(s) - 1)) + (Ord(s[Len(s)]) - 48)

RECURSIVE Pow10(_)
Pow10(k) == IF k = 0 THEN 1 ELSE 10 * Pow10(k - 1)

\* decimal rendering of a natural number, as f"{index}" produces it
RECURSIVE FormatInt(_)
FormatInt(n) ==
    IF n < 10 THEN <<Digits[n + 1]>>
    ELSE Append(FormatInt(n \div 10), Digits[(n % 10) + 1])

(***************************************************************************)
(* Values: Python int, float and str.  One record shape for all three.     *)
(***************************************************************************)
IntV(k) == [t |-> "int", n |-> k, d |-> 1, s |-> <<>>]

FloatV(k, m) == [t |-> "float", n |-> k, d |-> m, s |-> <<>>]

StrV(cps) == [t |-> "str", n |-> 0, d |-> 1, s |-> cps]

IsNum(v) == v.t \in {"int", "float"}

Abs(k) == IF k < 0 THEN -k ELSE k

RECURSIVE Gcd(_, _)
Gcd(a, b) == IF b = 0 THEN a ELSE Gcd(b, a % b)

\* the float n/d, reduced, with a positive denominator (d # 0)
Frac(k, m) ==
    LET g == Gcd(Abs(k), Abs(m))
        sg == IF m < 0 THEN -1 ELSE 1
    IN  FloatV((sg * k) \div g, (sg * m) \div g)

\* type of the result of an arithmetic operator on two numbers
NumResult(l, r, k, m) ==
    IF l.t = "int" /\ r.t = "int" THEN IntV(k \div m) ELSE Frac(k, m)

RECURSIVE Repeat(_, _)
Repeat(cps, k) == IF k <= 0 THEN <<>> ELSE cps \o Repeat(cps, k - 1)

(***************************************************************************)
(* Results of the helper methods: a value, or the exception that is raised *)
(***************************************************************************)
Ok(v) == [ok |-> TRUE, val |-> v, kind |-> "", msg |-> ""]

Raise(kind, msg) == [ok |-> FALSE, val |-> IntV(0), kind |-> kind, msg |-> msg]

\* Python's binary operators on the values above
PyAdd(l, r) ==
    IF IsNum(l) /\ IsNum(r)
    THEN Ok(NumResult(l, r, l.n * r.d + r.n * l.d, l.d * r.d))
    ELSE IF l.t = "str" /\ r.t = "str" THEN Ok(StrV(l.s \o r.s))
    ELSE Raise("TypeError", "")

PySub(l, r) ==
    IF IsNum(l) /\ IsNum(r)
    THEN Ok(NumResult(l, r, l.n * r.d - r.n * l.d, l.d * r.d))
    ELSE Raise("TypeError", "")

PyMul(l, r) ==
    IF IsNum(l) /\ IsNum(r)
    THEN Ok(NumResult(l, r, l.n * r.n, l.d * r.d))
    ELSE IF l.t = "str" /\ r.t = "int" THEN Ok(StrV(Repeat(l.s, r.n)))
    ELSE IF l.t = "int" /\ r.t = "str" THEN Ok(StrV(Repeat(r.s, l.n)))
    ELSE Raise("TypeError", "")

\* true division: always a float, also for two ints
PyTrueDiv(l, r) ==
    IF ~(IsNum(l) /\ IsNum(r)) THEN Raise("TypeError", "")
    ELSE IF r.n = 0 THEN Raise("ZeroDivisionError", "")
    ELSE Ok(Frac(l.n * r.d, l.d * r.n))

PyNeg(v) ==
    IF ~IsNum(v) THEN Raise("TypeError", "")
    ELSE IF v.t = "int" THEN Ok(IntV(-v.n)) ELSE Ok(FloatV(-v.n, v.d))

\* int(text): optional whitespace around, optional sign, digits with single
\* underscores between digits; ValueError otherwise
IntLiteralOk(b) ==
    /\ Len(b) > 0
    /\ IsDigitChar(b[1]) /\ IsDigitChar(b[Len(b)])
    /\ \A i \in 1..Len(b) : IsDigitChar(b[i]) \/ b[i] = "_"
    /\ \A i \in 1..(Len(b) - 1) : ~(b[i] = "_" /\ b[i + 1] = "_")

OnlyDigits(b) == SelectSeq(b, IsDigitChar)

PyInt(text) ==
    LET st == Strip(text)
        signed == Len(st) > 0 /\ st[1] \in {"+", "-"}
        body == IF signed THEN Slice(st, 2, Len(st)) ELSE st
        mag == DigitsValue(OnlyDigits(body))
    IN  IF ~IntLiteralOk(body) THEN Raise("ValueError", "")
        ELSE Ok(IntV(IF signed /\ st[1] = "-" THEN -mag ELSE mag))

\* chr(i): the one-character str of code point i; ValueError outside range
PyChr(v) ==
    IF v.n < 0 \/ v.n >= 1114112 THEN Raise("ValueError", "")
    ELSE Ok(StrV(<<v.n>>))

\* float(text) for a text matching ^\d+\.\d+$
PyFloat(text) ==
    LET dot == IndexIn(text, ".")
        ip == Slice(text, 1, dot - 1)
        fp == Slice(text, dot + 1, Len(text))
    IN  Frac(DigitsValue(ip) * Pow10(Len(fp)) + DigitsValue(fp), Pow10(Len(fp)))

(***************************************************************************)
(* dicts: functions whose domain is the set of keys                        *)
(***************************************************************************)
EmptyDict == <<>>

DictSet(dct, k, v) ==
    [x \in (DOMAIN dct) \cup {k} |-> IF x = k THEN v ELSE dct[x]]

\* current_dict is None, or a dict
None == <<>>

Some(dct) == <<dct>>

(***************************************************************************)
(* The regular expressions of the source, matched as re.match does: at the *)
(* start of the text, greedy, with backtracking.                           *)
(***************************************************************************)
Operators == {"+", "-", "*", "/"}

NoMatch == [m |-> FALSE, op |-> "", g1 |-> <<>>, g2 |-> <<>>]

Max(S) == CHOOSE x \in S : \A y \in S : x >= y

\* number of characters other than a line break starting at p (regex .+)
RECURSIVE DotRun(_, _)
DotRun(s, p) ==
    IF p <= Len(s) /\ s[p] # "\n" THEN 1 + DotRun(s, p + 1) ELSE 0

HasOpHead(expr) ==
    Len(expr) >= 3 /\ expr[1] = "#" /\ expr[2] = "(" /\ expr[3] \in Operators

\* r"#\(([-+*/])\s*(\S+)\s*(\S+)\)" : g1 is the left, g2 the right operand.
\* The first \S+ takes the longest prefix of the token for which the rest
\* still matches, then the second \S+ the longest run followed by ")".
MatchBinary(expr) ==
    IF ~HasOpHead(expr) THEN NoMatch
    ELSE
      LET p == 4 + SpaceRun(expr, 4)
          RightStart(b) == (p + b) + SpaceRun(expr, p + b)
          RightLens(b) ==
              {d \in 1..NonSpaceRun(expr, RightStart(b)) :
                   RightStart(b) + d <= Len(expr) /\ expr[RightStart(b) + d] = ")"}
          LeftLens == {b \in 1..NonSpaceRun(expr, p) : RightLens(b) # {}}
      IN  IF LeftLens = {} THEN NoMatch
          ELSE LET b == Max(LeftLens)
                   d == Max(RightLens(b))
               IN  [m |-> TRUE, op |-> expr[3],
                    g1 |-> SubSeq(expr, p, p + b - 1),
                    g2 |-> SubSeq(expr, RightStart(b), RightStart(b) + d - 1)]

\* r"#\(([-+*/])\s*(.+)\)" : g1 is the inner expression, up to the last ")"
MatchUnary(expr) ==
    IF ~HasOpHead(expr) THEN NoMatch
    ELSE
      LET InnerLens(a) ==
              {e \in 1..DotRun(expr, 4 + a) :
                   4 + a + e <= Len(expr) /\ expr[4 + a + e] = ")"}
          Skips == {a \in 0..SpaceRun(expr, 4) : InnerLens(a) # {}}
      IN  IF Skips = {} THEN NoMatch
          ELSE LET a == Max(Skips)
                   e == Max(InnerLens(a))
               IN  [m |-> TRUE, op |-> expr[3],
                    g1 |-> SubSeq(expr, 4 + a, 4 + a + e - 1), g2 |-> <<>>]

\* r"def\s+([a-zA-Z_][a-zA-Z0-9_]*)\s*:=\s*(.+)" : g1 the name, g2 the rest
MatchDef(line) ==
    IF ~(StartsWith(line, <<"d", "e", "f">>) /\ SpaceRun(line, 4) >= 1)
    THEN NoMatch
    ELSE
      LET p == 4 + SpaceRun(line, 4)
          q == p + IdentRun(line, p)
          c == q + SpaceRun(line, q)
          r == c + 2
          Skips == {a \in 0..SpaceRun(line, r) : DotRun(line, r + a) >= 1}
      IN  IF IdentRun(line, p) = 0 THEN NoMatch
          ELSE IF ~(c + 1 <= Len(line) /\ line[c] = ":" /\ line[c + 1] = "=")
          THEN NoMatch
          ELSE IF Skips = {} THEN NoMatch
          ELSE LET a == Max(Skips)
               IN  [m |-> TRUE, op |-> "",
                    g1 |-> SubSeq(line, p, q - 1),
                    g2 |-> SubSeq(line, r + a, r + a + DotRun(line, r + a) - 1)]

\* r"([a-zA-Z_][a-zA-Z0-9_]*) = (.+);" : g1 the key, g2 the value text, which
\* runs up to the last ";" of the line
MatchKeyValue(line) ==
    LET k == IdentRun(line, 1)
        p == k + 4
        ValueLens == {e \in 1..DotRun(line, p) :
                          p + e <= Len(line) /\ line[p + e] = ";"}
    IN  IF k = 0 THEN NoMatch
        ELSE IF ~(k + 3 <= Len(line) /\ SubSeq(line, k + 1, k + 3) = <<" ", "=", " ">>)
        THEN NoMatch
        ELSE IF ValueLens = {} THEN NoMatch
        ELSE [m |-> TRUE, op |-> "",
              g1 |-> SubSeq(line, 1, k),
              g2 |-> SubSeq(line, p, p + Max(ValueLens) - 1)]

\* r"^\d+\.\d+$"
MatchFloat(value) ==
    \E dot \in 2..(Len(value) - 1) :
        /\ value[dot] = "."
        /\ IsDigit(SubSeq(value, 1, dot - 1))
        /\ IsDigit(SubSeq(value, dot + 1, Len(value)))

(***************************************************************************)
(* ConfigParser's helper methods, as functions of self.constants           *)
(***************************************************************************)
\* variant: an operand is a digit literal, the Constant Table is not consulted
GetValueDigitsOnly(consts, value) ==
    IF IsDigit(value) THEN Ok(IntV(DigitsValue(value)))
    ELSE Raise("SyntaxError", "Unknown variable or value")

\* _get_value_from_expression
GetValueFromExpression(consts, value) ==
    IF IsDigit(value) THEN Ok(IntV(DigitsValue(value)))
    ELSE IF value \in DOMAIN consts THEN Ok(consts[value])
    ELSE Raise("SyntaxError", "Unknown variable or value")

\* the if/elif chain over op of the binary form
ApplyBinary(op, l, r) ==
    CASE op = "+" -> PyAdd(l, r)
      [] op = "-" -> PySub(l, r)
      [] op = "*" -> PyMul(l, r)
      [] op = "/" -> PyTrueDiv(l, r)
      [] OTHER -> Raise("SyntaxError", "Unsupported operation")

\* the if/elif chain over op of the unary form
ApplyUnary(op, v) ==
    CASE op = "+" -> Ok(v)
      [] op = "-" -> PyNeg(v)
      [] op = "*" -> Ok(v)
      [] op = "/" -> PyTrueDiv(IntV(1), v)
      [] OTHER -> Raise("SyntaxError", "Unsupported operation")

\* lines 76-89: the binary form, mb the match of its pattern
EvalOperands(op, left_val, right_val) ==
    IF ~left_val.ok THEN left_val
    ELSE IF ~right_val.ok THEN right_val
    ELSE ApplyBinary(op, left_val.val, right_val.val)

EvalBinary(consts, mb) ==
    EvalOperands(mb.op, GetValueFromExpression(consts, mb.g1),
                        GetValueFromExpression(consts, mb.g2))

\* lines 95-104: the unary form on the evaluated inner expression
EvalInner(op, inner_value) ==
    IF ~inner_value.ok THEN inner_value ELSE ApplyUnary(op, inner_value.val)

\* lines 68-69: chr(int(inner))
EvalChr(inner) == IF inner.ok THEN PyChr(inner.val) ELSE inner

\* _evaluate_expression; EvalForms is its part from line 72 on, with the
\* matches of the binary and of the unary pattern
RECURSIVE EvaluateExpression(_, _)
EvalForms(consts, mb, mu) ==
    IF mb.m THEN EvalBinary(consts, mb)
    ELSE IF mu.m THEN EvalInner(mu.op, EvaluateExpression(consts, mu.g1))
    ELSE Raise("SyntaxError", "Invalid expression")

EvaluateExpression(consts, expr) ==
    IF IsDigit(expr) THEN Ok(IntV(DigitsValue(expr)))
    ELSE IF StartsWith(expr, <<"c", "h", "r", "(">>) /\ EndsWith(expr, <<")">>)
    THEN EvalChr(PyInt(Slice(expr, 5, Len(expr) - 1)))
    ELSE EvalForms(consts, MatchBinary(expr), MatchUnary(expr))

\* _parse_constant: the name and the value to store, or the exception
StoreConstant(consts, md) ==
    IF ~md.m
    THEN [name |-> <<>>, expr |-> <<>>,
          res |-> Raise("SyntaxError", "Invalid constant definition")]
    ELSE [name |-> md.g1, expr |-> Strip(ReplaceNewline(md.g2)),
          res |-> EvaluateExpression(consts, Strip(ReplaceNewline(md.g2)))]

ParseConstant(consts, line) == StoreConstant(consts, MatchDef(line))

\* variant: a value resolver that does not consult self.constants
ParseValueNoConstants(consts, value) ==
    IF IsDigit(value) THEN Ok(IntV(DigitsValue(value)))
    ELSE IF MatchFloat(value) THEN Ok(PyFloat(value))
    ELSE IF StartsWith(value, <<"[", "[">>) /\ EndsWith(value, <<"]", "]">>)
    THEN Ok(StrV(CodePoints(Slice(value, 3, Len(value) - 2))))
    ELSE Raise("SyntaxError", "Invalid value")

\* variant: a bracketed value keeps its delimiters
ParseValueKeepDelimiters(consts, value) ==
    IF IsDigit(value) THEN Ok(IntV(DigitsValue(value)))
    ELSE IF MatchFloat(value) THEN Ok(PyFloat(value))
    ELSE IF StartsWith(value, <<"[", "[">>) /\ EndsWith(value, <<"]", "]">>)
    THEN Ok(StrV(CodePoints(value)))
    ELSE IF value \in DOMAIN consts THEN Ok(consts[value])
    ELSE Raise("SyntaxError", "Invalid value")

\* _parse_value
ParseValue(consts, value) ==
    IF IsDigit(value) THEN Ok(IntV(DigitsValue(value)))
    ELSE IF MatchFloat(value) THEN Ok(PyFloat(value))
    ELSE IF StartsWith(value, <<"[", "[">>) /\ EndsWith(value, <<"]", "]">>)
    THEN Ok(StrV(CodePoints(Slice(value, 3, Len(value) - 2))))
    ELSE IF value \in DOMAIN consts THEN Ok(consts[value])
    ELSE Raise("SyntaxError", "Invalid value")

\* _parse_key_value: the key and the value, or the exception
KeyValueOf(consts, mk) ==
    IF ~mk.m
    THEN [name |-> <<>>, res |-> Raise("SyntaxError", "Invalid key-value pair")]
    ELSE [name |-> mk.g1, res |-> ParseValue(consts, mk.g2)]

ParseKeyValue(consts, line) == KeyValueOf(consts, MatchKeyValue(line))

\* f"dict{index}"
DictName(index) == <<"d", "i", "c", "t">> \o FormatInt(index)

\* the while loop of _generate_dict_name, entered with the given index
RECURSIVE ProbeDictName(_, _)
ProbeDictName(data, index) ==
    IF DictName(index) \in DOMAIN data THEN ProbeDictName(data, index + 1)
    ELSE DictName(index)

\* variant: the first name of the sequence, without probing the Document
GenerateDictNameFirst(data) == DictName(1)

\* _generate_dict_name
GenerateDictName(data) == ProbeDictName(data, 1)

(***************************************************************************)
(* Input texts.  Lines are the elements of input_text.strip().splitlines() *)
(* before the per-line strip.                                              *)
(***************************************************************************)
\* "  "
LBlank == <<" ", " ">>

\* "# c"
LComment == <<"#", " ", "c">>

\* "def n := 5"
LDefN5 == <<"d", "e", "f", " ", "n", " ", ":", "=", " ", "5">>

\* "def n := 007"
LDefN007 == <<"d", "e", "f", " ", "n", " ", ":", "=", " ", "0", "0", "7">>

\* "def c := 1"
LDefC1 == <<"d", "e", "f", " ", "c", " ", ":", "=", " ", "1">>

\* "  def c := 2"
LDefC2 == <<" ", " ", "d", "e", "f", " ", "c", " ", ":", "=", " ", "2">>

\* "def c := chr(65)"
LDefCChr == <<"d", "e", "f", " ", "c", " ", ":", "=", " ", "c", "h", "r", "(", "6", "5", ")">>

\* "def n := #(+ c 1)"
LDefNPlusC == <<"d", "e", "f", " ", "n", " ", ":", "=", " ", "#", "(", "+", " ", "c", " ", "1", ")">>

\* "def n = 5"
LDefNoAssign == <<"d", "e", "f", " ", "n", " ", "=", " ", "5">>

\* "@{"
LOpen == <<"@", "{">>

\* "}"
LClose == <<"}">>

\* " }"
LCloseIndented == <<" ", "}">>

\* "k = 1;"
LKeyOne == <<"k", " ", "=", " ", "1", ";">>

\* "k = n;"
LKeyN == <<"k", " ", "=", " ", "n", ";">>

\* "k = c;"
LKeyC == <<"k", " ", "=", " ", "c", ";">>

\* "j = 1.5;"
LJayFloat == <<"j", " ", "=", " ", "1", ".", "5", ";">>

\* "j = [[ab]];"
LJayString == <<"j", " ", "=", " ", "[", "[", "a", "b", "]", "]", ";">>

\* "k = x;"
LKeyUnknown == <<"k", " ", "=", " ", "x", ";">>

\* "k = 1"
LKeyNoSemi == <<"k", " ", "=", " ", "1">>

\* "k == 1;"
LKeyEqEq == <<"k", " ", "=", "=", " ", "1", ";">>

\* "k=1;"
LKeyNoSpaces == <<"k", "=", "1", ";">>

\* "k = 2; x"
LKeyTrailing == <<"k", " ", "=", " ", "2", ";", " ", "x">>

\* "def = n;"
LKeyDef == <<"d", "e", "f", " ", "=", " ", "n", ";">>

Lines ==
    {LBlank, LComment, LDefN5, LDefN007, LDefC1,
     LDefC2, LDefCChr, LDefNPlusC, LDefNoAssign, LOpen,
     LClose, LCloseIndented, LKeyOne, LKeyN, LKeyC,
     LJayFloat, LJayString, LKeyUnknown, LKeyNoSemi, LKeyEqEq,
     LKeyNoSpaces, LKeyTrailing, LKeyDef}

\* expressions of constant declarations
\* "5"
EFive == <<"5">>

\* "007"
EZeroSeven == <<"0", "0", "7">>

\* "55"
EFiftyFive == <<"5", "5">>

\* "chr(65)"
EChr65 == <<"c", "h", "r", "(", "6", "5", ")">>

\* "chr(x)"
EChrX == <<"c", "h", "r", "(", "x", ")">>

\* "chr( 65 )"
EChrSpaced == <<"c", "h", "r", "(", " ", "6", "5", " ", ")">>

\* "n"
EName == <<"n">>

\* "#(+  )"
EEmptyParens == <<"#", "(", "+", " ", " ", ")">>

\* "#(+ n 1)"
EAddN1 == <<"#", "(", "+", " ", "n", " ", "1", ")">>

\* "#(+ c 1)"
EAddC1 == <<"#", "(", "+", " ", "c", " ", "1", ")">>

\* "#(* c 2)"
EMulC2 == <<"#", "(", "*", " ", "c", " ", "2", ")">>

\* "#(- 1 2)"
ESub12 == <<"#", "(", "-", " ", "1", " ", "2", ")">>

\* "#(/ 1 2)"
EDiv12 == <<"#", "(", "/", " ", "1", " ", "2", ")">>

\* "#(/ 1 0)"
EDiv10 == <<"#", "(", "/", " ", "1", " ", "0", ")">>

\* "#(/ 4 2)"
EDiv42 == <<"#", "(", "/", " ", "4", " ", "2", ")">>

\* "#(+ (1) 2)"
EAddParen == <<"#", "(", "+", " ", "(", "1", ")", " ", "2", ")">>

\* "#(+ x 1)"
EAddUnknown == <<"#", "(", "+", " ", "x", " ", "1", ")">>

\* "#(% 1 2)"
EPct == <<"#", "(", "%", " ", "1", " ", "2", ")">>

\* "#(<op> <e>)" and "def <name> := <e>"
UnaryText(op, e) == <<"#", "(", op, " ">> \o e \o <<")">>

DefText(name, e) == <<"d", "e", "f", " ">> \o name \o <<" ", ":", "=", " ">> \o e

InnerExprs == {EFive, EFiftyFive, EZeroSeven, EDiv12, ESub12, EChrSpaced,
               UnaryText("-", EFive), UnaryText("/", EDiv42)}

UnaryExprs == {UnaryText(op, e) : op \in Operators, e \in InnerExprs}

Exprs ==
    {EFive, EZeroSeven, EChr65, EChrX, EName, EEmptyParens, EAddN1, EAddC1,
     EMulC2, ESub12, EDiv12, EDiv10, EAddParen, EAddUnknown, EPct}
    \cup UnaryExprs \cup {UnaryText("/", <<"0">>), UnaryText("-", EName)}

\* the declarations the evaluator is exercised with
DefLines ==
    {DefText(<<"n">>, e) : e \in Exprs}
    \cup {DefText(<<"c">>, e) : e \in {EChr65, EChrSpaced, EFive, EDiv12}}

\* "#(+ #(+ 1 2) 3)"
ENested ==
    <<"#", "(", "+", " ", "#", "(", "+", " ", "1", " ", "2", ")", " ", "3", ")">>

\* declarations of a second name that refer to n, and a nested binary form
RefLines ==
    {DefText(<<"m">>, e) : e \in {EName, EAddN1, UnaryText("-", EName)}}
    \cup {DefText(<<"n">>, ENested)}

(***************************************************************************)
(* State.  One ConfigParser instance, called repeatedly; next to it, for   *)
(* each call, a ConfigParser() constructed for that call alone and given   *)
(* the same lines.                                                         *)
(***************************************************************************)
VARIABLES
    constants,      \* self.constants
    parsed_data,    \* local parsed_data of the running call
    current_dict,   \* local current_dict of the running call
    line,           \* local line (after strip) of the loop
    pc,             \* "ready", "loop", "returned" or "raised"
    err,            \* the exception that left parse
    result,         \* what the last call returned: None or Some(Document)
    nread,          \* lines read by the instance so far, over all calls
    calls,          \* calls of parse made on the instance
    pool,           \* the lines the input texts are made of
    declared,       \* history: for each name of self.constants, the
                    \* expression text (value_expr) of its last declaration
    fresh,          \* the parser constructed for the current call alone
    written         \* history: the pairs put into the last opened block, in order

vars == <<constants, parsed_data, current_dict, line, pc, err, result,
          nread, calls, pool, declared, fresh, written>>

NoErr == [kind |-> "", msg |-> ""]

ErrOf(res) == [kind |-> res.kind, msg |-> res.msg]

\* ConfigParser() followed by the entry of parse: lines 16, 21, 22
NewParse(consts) ==
    [constants |-> consts, parsed_data |-> EmptyDict, current_dict |-> None,
     pc |-> "loop", err |-> NoErr, result |-> None]

IsSkipped(ln) == ln = <<>> \/ StartsWith(ln, <<"#">>)

IsDef(ln) == StartsWith(ln, <<"d", "e", "f", " ">>)

IsOpen(ln) == StartsWith(ln, <<"@", "{">>)

IsClose(ln) == StartsWith(ln, <<"}">>)

Raised(st, res) == [st EXCEPT !.pc = "raised", !.err = ErrOf(res)]

\* the branches of the loop of parse on a parser given as a record
DoDef(st, pcon) ==
    IF pcon.res.ok
    THEN [st EXCEPT !.constants = DictSet(@, pcon.name, pcon.res.val)]
    ELSE Raised(st, pcon.res)

DoOpen(st) ==
    IF st.current_dict # None
    THEN Raised(st, Raise("SyntaxError", "Nested dictionaries are not allowed."))
    ELSE [st EXCEPT !.current_dict = Some(EmptyDict)]

DoClose(st, dict_name) ==
    [st EXCEPT !.parsed_data = DictSet(@, dict_name, st.current_dict[1]),
               !.current_dict = None]

DoKeyValue(st, pkv) ==
    IF pkv.res.ok
    THEN [st EXCEPT !.current_dict = Some(DictSet(@[1], pkv.name, pkv.res.val))]
    ELSE Raised(st, pkv.res)

\* one iteration of the loop of parse (lines 25-43), ln the stripped line
ParseStripped(st, ln) ==
    IF st.pc # "loop" THEN st
    ELSE IF IsSkipped(ln) THEN st
    ELSE IF IsDef(ln) THEN DoDef(st, ParseConstant(st.constants, ln))
    ELSE IF IsOpen(ln) THEN DoOpen(st)
    ELSE IF IsClose(ln) /\ st.current_dict # None
    THEN DoClose(st, GenerateDictName(st.parsed_data))
    ELSE IF st.current_dict # None
    THEN DoKeyValue(st, ParseKeyValue(st.constants, ln))
    ELSE Raised(st, Raise("SyntaxError", "Unexpected line"))

ParseLine(st, raw) == ParseStripped(st, Strip(raw))

\* return parsed_data
ParseReturn(st) ==
    IF st.pc # "loop" THEN st
    ELSE [st EXCEPT !.pc = "returned", !.result = Some(st.parsed_data)]

InitWith(P) ==
    /\ constants = EmptyDict
    /\ parsed_data = EmptyDict
    /\ current_dict = None
    /\ line = <<>>
    /\ pc = "ready"
    /\ err = NoErr
    /\ result = None
    /\ nread = 0
    /\ calls = 0
    /\ pool = P
    /\ declared = EmptyDict
    /\ fresh = [NewParse(EmptyDict) EXCEPT !.pc = "ready"]
    /\ written = <<>>

Init == InitWith(Lines)

\* parse(input_text) is called on the instance
Call ==
    /\ pc \in {"ready", "returned", "raised"}
    /\ calls < MaxCalls
    /\ calls' = calls + 1
    /\ pc' = "loop"
    /\ parsed_data' = EmptyDict
    /\ current_dict' = None
    /\ line' = <<>>
    /\ err' = NoErr
    /\ result' = None
    /\ fresh' = NewParse(EmptyDict)
    /\ written' = <<>>
    /\ UNCHANGED <<constants, nread, pool, declared>>

\* the lines an exploration reads, by the texts it draws from
LineBudget == IF pool = Lines THEN MaxLines ELSE MaxEvalLines

\* the loop takes the next line of the input
Read(raw) ==
    /\ pc = "loop"
    /\ nread < LineBudget
    /\ nread' = nread + 1
    /\ line' = Strip(raw)
    /\ fresh' = ParseLine(fresh, raw)
    /\ UNCHANGED <<calls, pool, result>>

\* variant: the error is recorded and the loop goes on with the next line
ThrowAndGoOn(res) ==
    /\ pc' = pc
    /\ err' = ErrOf(res)

\* an exception leaves parse
Throw(res) ==
    /\ pc' = "raised"
    /\ err' = ErrOf(res)

NoThrow == UNCHANGED <<pc, err>>

\* lines 26-27: blank line or comment
SkipLine(raw) ==
    /\ pc = "loop"
    /\ IsSkipped(Strip(raw))
    /\ Read(raw)
    /\ NoThrow
    /\ UNCHANGED <<constants, parsed_data, current_dict, declared, written>>

\* variant: block entries taken from the constant follow its redeclaration
DefLineLateBound(raw) ==
    LET ln == Strip(raw)
        pcon == ParseConstant(constants, ln)
        Rebound(body) ==
            [k \in DOMAIN body |->
                IF pcon.name \in DOMAIN constants /\ body[k] = constants[pcon.name]
                THEN pcon.res.val ELSE body[k]]
    IN  /\ pc = "loop"
        /\ ~IsSkipped(ln) /\ IsDef(ln)
        /\ Read(raw)
        /\ IF pcon.res.ok
           THEN /\ constants' = DictSet(constants, pcon.name, pcon.res.val)
                /\ declared' = DictSet(declared, pcon.name, pcon.expr)
                /\ current_dict' = IF current_dict = None THEN None
                                   ELSE Some(Rebound(current_dict[1]))
                /\ NoThrow
           ELSE Throw(pcon.res) /\ UNCHANGED <<constants, declared, current_dict>>
        /\ UNCHANGED <<parsed_data, written>>

\* lines 29-30: constant declaration
DefLine(raw) ==
    LET ln == Strip(raw)
        pcon == ParseConstant(constants, ln)
    IN  /\ pc = "loop"
        /\ ~IsSkipped(ln) /\ IsDef(ln)
        /\ Read(raw)
        /\ IF pcon.res.ok
           THEN /\ constants' = DictSet(constants, pcon.name, pcon.res.val)
                /\ declared' = DictSet(declared, pcon.name, pcon.expr)
                /\ NoThrow
           ELSE Throw(pcon.res) /\ UNCHANGED <<constants, declared>>
        /\ UNCHANGED <<parsed_data, current_dict, written>>

\* variant: no nesting test, the open block is started again
OpenLineRestart(raw) ==
    LET ln == Strip(raw)
    IN  /\ pc = "loop"
        /\ ~IsSkipped(ln) /\ ~IsDef(ln) /\ IsOpen(ln)
        /\ Read(raw)
        /\ current_dict' = Some(EmptyDict)
        /\ written' = <<>>
        /\ NoThrow
        /\ UNCHANGED <<constants, parsed_data, declared>>

\* lines 31-34: block open
OpenLine(raw) ==
    LET ln == Strip(raw)
    IN  /\ pc = "loop"
        /\ ~IsSkipped(ln) /\ ~IsDef(ln) /\ IsOpen(ln)
        /\ Read(raw)
        /\ IF current_dict # None
           THEN /\ Throw(Raise("SyntaxError", "Nested dictionaries are not allowed."))
                /\ UNCHANGED <<current_dict, written>>
           ELSE current_dict' = Some(EmptyDict) /\ written' = <<>> /\ NoThrow
        /\ UNCHANGED <<constants, parsed_data, declared>>

\* variant: the Document is rebuilt from the closed block alone
CloseLineRebuild(raw) ==
    LET ln == Strip(raw)
        dict_name == GenerateDictName(parsed_data)
    IN  /\ pc = "loop"
        /\ ~IsSkipped(ln) /\ ~IsDef(ln) /\ ~IsOpen(ln)
        /\ IsClose(ln) /\ current_dict # None
        /\ Read(raw)
        /\ parsed_data' = DictSet(EmptyDict, dict_name, current_dict[1])
        /\ current_dict' = None
        /\ NoThrow
        /\ UNCHANGED <<constants, declared, written>>

\* lines 35-38: block close
CloseLine(raw) ==
    LET ln == Strip(raw)
        dict_name == GenerateDictName(parsed_data)
    IN  /\ pc = "loop"
        /\ ~IsSkipped(ln) /\ ~IsDef(ln) /\ ~IsOpen(ln)
        /\ IsClose(ln) /\ current_dict # None
        /\ Read(raw)
        /\ parsed_data' = DictSet(parsed_data, dict_name, current_dict[1])
        /\ current_dict' = None
        /\ NoThrow
        /\ UNCHANGED <<constants, declared, written>>

\* variant: a key that the open block already holds keeps its first value
KeyValueLineKeepFirst(raw) ==
    LET ln == Strip(raw)
        pkv == ParseKeyValue(constants, ln)
    IN  /\ pc = "loop"
        /\ ~IsSkipped(ln) /\ ~IsDef(ln) /\ ~IsOpen(ln)
        /\ ~(IsClose(ln) /\ current_dict # None)
        /\ current_dict # None
        /\ Read(raw)
        /\ IF pkv.res.ok
           THEN /\ current_dict' =
                        IF pkv.name \in DOMAIN current_dict[1] THEN current_dict
                        ELSE Some(DictSet(current_dict[1], pkv.name, pkv.res.val))
                /\ written' = Append(written, [key |-> pkv.name, val |-> pkv.res.val])
                /\ NoThrow
           ELSE Throw(pkv.res) /\ UNCHANGED <<current_dict, written>>
        /\ UNCHANGED <<constants, parsed_data, declared>>

\* lines 39-41: key-value pair
KeyValueLine(raw) ==
    LET ln == Strip(raw)
        pkv == ParseKeyValue(constants, ln)
    IN  /\ pc = "loop"
        /\ ~IsSkipped(ln) /\ ~IsDef(ln) /\ ~IsOpen(ln)
        /\ ~(IsClose(ln) /\ current_dict # None)
        /\ current_dict # None
        /\ Read(raw)
        /\ IF pkv.res.ok
           THEN /\ current_dict' = Some(DictSet(current_dict[1], pkv.name, pkv.res.val))
                /\ written' = Append(written, [key |-> pkv.name, val |-> pkv.res.val])
                /\ NoThrow
           ELSE Throw(pkv.res) /\ UNCHANGED <<current_dict, written>>
        /\ UNCHANGED <<constants, parsed_data, declared>>

\* variant: a line outside any block is dropped without an error
UnexpectedLineIgnored(raw) ==
    LET ln == Strip(raw)
    IN  /\ pc = "loop"
        /\ ~IsSkipped(ln) /\ ~IsDef(ln) /\ ~IsOpen(ln)
        /\ ~(IsClose(ln) /\ current_dict # None)
        /\ current_dict = None
        /\ Read(raw)
        /\ NoThrow
        /\ UNCHANGED <<constants, parsed_data, current_dict, declared, written>>

\* lines 42-43: any other line
UnexpectedLine(raw) ==
    LET ln == Strip(raw)
    IN  /\ pc = "loop"
        /\ ~IsSkipped(ln) /\ ~IsDef(ln) /\ ~IsOpen(ln)
        /\ ~(IsClose(ln) /\ current_dict # None)
        /\ current_dict = None
        /\ Read(raw)
        /\ Throw(Raise("SyntaxError", "Unexpected line"))
        /\ UNCHANGED <<constants, parsed_data, current_dict, declared, written>>

\* variant: a block left open at the end of the input is closed and named
ReturnClosesOpenBlock ==
    /\ pc = "loop"
    /\ pc' = "returned"
    /\ result' = Some(IF current_dict = None THEN parsed_data
                      ELSE DictSet(parsed_data, GenerateDictName(parsed_data),
                                   current_dict[1]))
    /\ fresh' = ParseReturn(fresh)
    /\ UNCHANGED <<constants, parsed_data, current_dict, line, err, nread,
                   calls, pool, declared, written>>

\* line 45: the input is exhausted
Return ==
    /\ pc = "loop"
    /\ pc' = "returned"
    /\ result' = Some(parsed_data)
    /\ fresh' = ParseReturn(fresh)
    /\ UNCHANGED <<constants, parsed_data, current_dict, line, err, nread,
                   calls, pool, declared, written>>

Next ==
    \/ Call
    \/ Return
    \/ \E raw \in pool : SkipLine(raw)
    \/ \E raw \in pool : DefLine(raw)
    \/ \E raw \in pool : OpenLine(raw)
    \/ \E raw \in pool : CloseLine(raw)
    \/ \E raw \in pool : KeyValueLine(raw)
    \/ \E raw \in pool : UnexpectedLine(raw)

Spec == Init /\ [][Next]_vars

\* the same parser, fed with the declarations that exercise the evaluator
EvalLines == DefLines \cup RefLines \cup {LBlank, LOpen, LClose, LKeyN, LKeyC}

InitEval == InitWith(EvalLines)

SpecEval == InitEval /\ [][Next]_vars

(***************************************************************************)
(* Properties.                                                             *)
(***************************************************************************)
ConstNames == {<<"n">>, <<"c">>}

Keys == {<<"k">>, <<"j">>, <<"d", "e", "f">>}

DigitLits == {EFive, EZeroSeven, <<"1">>, <<"2">>}

\* "<key> = <value>;"
KeyValueText(k, v) == k \o <<" ", "=", " ">> \o v \o <<";">>

SyntaxErr(msg) == [kind |-> "SyntaxError", msg |-> msg]

\* this step reads a line: line' is the stripped line the loop body handles
ReadsLine == pc = "loop" /\ nread' = nread + 1

\* this step closes the open block
ClosesBlock ==
    pc = "loop" /\ pc' = "loop" /\ current_dict # None /\ current_dict' = None

DocNames(n) == {DictName(i) : i \in 1..n}

\* C1: with no block open, a line that is not blank, not a comment and starts
\* with neither "def " nor "@{" (a key-value line, a "}" line, ...) makes
\* parse fail with SyntaxError "Unexpected line"; no Document is returned.
C1_IdleRejectsOtherLines ==
    [][(ReadsLine /\ current_dict = None
          /\ ~IsSkipped(line') /\ ~IsDef(line') /\ ~IsOpen(line'))
       => (pc' = "raised" /\ err' = SyntaxErr("Unexpected line") /\ result' = None)]_vars

C1_Witness ==
    /\ pc = "raised" /\ err = SyntaxErr("Unexpected line")
    /\ current_dict = None /\ IsClose(line)

\* C2: a line starting with "@{" read while a block is open makes parse fail
\* with the nested-block error and leaves the body of the open block as it is.
C2_NoNesting ==
    [][(ReadsLine /\ current_dict # None /\ IsOpen(line'))
       => (/\ pc' = "raised"
           /\ err' = SyntaxErr("Nested dictionaries are not allowed.")
           /\ current_dict' = current_dict /\ parsed_data' = parsed_data
           /\ result' = None)]_vars

C2_Witness ==
    /\ pc = "raised" /\ err = SyntaxErr("Nested dictionaries are not allowed.")
    /\ current_dict # None /\ DOMAIN current_dict[1] # {}

\* C3: the k-th block closed in a call is inserted under dict<k>: the key set
\* of the Document is always {dict1..dictn}, and a close adds the body under
\* the name dict<n+1>, which is not yet a key, and changes no other entry.
C3_NamesInEncounterOrder ==
    [][/\ DOMAIN parsed_data' = DocNames(Cardinality(DOMAIN parsed_data'))
       /\ ClosesBlock =>
            LET k == Cardinality(DOMAIN parsed_data) + 1
            IN  /\ DictName(k) \notin DOMAIN parsed_data
                /\ parsed_data' = DictSet(parsed_data, DictName(k), current_dict[1])
                /\ \A nm \in DOMAIN parsed_data : parsed_data'[nm] = parsed_data[nm]]_vars

C3_Witness ==
    /\ pc = "returned" /\ result # None
    /\ DOMAIN result[1] = {DictName(1), DictName(2)}

\* C4: a call on a used instance ends as the same input ends on a parser
\* constructed for that call: same outcome, same error, same Document.
C4_NoCrossCallLeak ==
    pc \in {"returned", "raised"}
        => (fresh.pc = pc /\ fresh.err = err /\ fresh.result = result)

\* C5: an error ends the call: no Document is returned, and until the next
\* call no further line is read and neither the Constant Table nor the
\* Document changes.
C5_FirstErrorAborts ==
    [][/\ err' # NoErr => (pc' = "raised" /\ result' = None)
       /\ (err # NoErr /\ calls' = calls)
            => UNCHANGED <<constants, parsed_data, current_dict, nread, result, pc>>]_vars

C5_Witness ==
    /\ pc = "raised" /\ result = None
    /\ DOMAIN parsed_data # {} /\ nread < MaxLines

\* C6: whenever parse fails, it fails with SyntaxError.
C6_SingleErrorKind == pc = "raised" => err.kind = "SyntaxError"

\* C7: after "def n := v" with a digit literal v, and no later declaration of
\* n, a line "k = n;" handled as a key-value pair of the open block stores the
\* Integer value of v under k.
C7_ReferenceYieldsInteger ==
    [][\A k \in Keys, nm \in ConstNames :
         (/\ ReadsLine /\ current_dict # None
          /\ line' = KeyValueText(k, nm) /\ ~IsDef(line')
          /\ nm \in DOMAIN declared /\ IsDigit(declared[nm]))
         => (/\ pc' = "loop" /\ current_dict' # None
             /\ k \in DOMAIN current_dict'[1]
             /\ current_dict'[1][k] = IntV(DigitsValue(declared[nm])))]_vars

C7_Witness ==
    /\ pc = "loop" /\ line = LKeyN /\ current_dict # None
    /\ <<"n">> \in DOMAIN declared /\ declared[<<"n">>] = EZeroSeven
    /\ <<"k">> \in DOMAIN current_dict[1] /\ current_dict[1][<<"k">>] = IntV(7)

\* C8: a key-value line stores the value the constant holds when the line is
\* read; a declaration "def c := v" stores the new value of c and changes
\* neither the open block body nor the Document.
C8_ResolvedByValue ==
    [][/\ (ReadsLine /\ IsDef(line'))
            => /\ current_dict' = current_dict /\ parsed_data' = parsed_data
               /\ \A nm \in ConstNames, v \in DigitLits :
                    line' = DefText(nm, v)
                        => (/\ pc' = "loop" /\ nm \in DOMAIN constants'
                            /\ constants'[nm] = IntV(DigitsValue(v)))
       /\ \A k \in Keys, nm \in ConstNames :
            (/\ ReadsLine /\ current_dict # None /\ nm \in DOMAIN constants
             /\ line' = KeyValueText(k, nm) /\ ~IsDef(line'))
            => (/\ current_dict' # None /\ k \in DOMAIN current_dict'[1]
                /\ current_dict'[1][k] = constants[nm])]_vars

C8_Witness ==
    /\ pc = "loop" /\ line = LDefN007
    /\ <<"n">> \in DOMAIN constants /\ constants[<<"n">>] = IntV(7)
    /\ current_dict # None /\ <<"k">> \in DOMAIN current_dict[1]
    /\ current_dict[1][<<"k">>] = IntV(5)

\* C9: during a call every entry of the Document stays as it was inserted;
\* the key set changes only when a block is closed, and then by one name.
C9_DocumentEntriesStable ==
    [][pc = "loop"
       => /\ \A nm \in DOMAIN parsed_data :
                nm \in DOMAIN parsed_data' /\ parsed_data'[nm] = parsed_data[nm]
          /\ ClosesBlock
                => Cardinality(DOMAIN parsed_data') = Cardinality(DOMAIN parsed_data) + 1
          /\ ~ClosesBlock => parsed_data' = parsed_data]_vars

C9_Witness ==
    /\ pc = "loop" /\ current_dict # None /\ DictName(1) \in DOMAIN parsed_data
    /\ \E k \in DOMAIN current_dict[1] \cap DOMAIN parsed_data[DictName(1)] :
            current_dict[1][k] # parsed_data[DictName(1)][k]

\* the value the unary form is said to have on the number x
UnaryMeaning(op, x) ==
    CASE op = "+" -> x
      [] op = "-" -> [x EXCEPT !.n = -x.n]
      [] op = "*" -> x
      [] op = "/" -> Frac(x.d, x.n)

\* C10: for an inner expression e that evaluates to a number x, the
\* declaration "def n := #(<op> e)" stores x for +, -x for -, x for * and
\* 1/x for / (x # 0).
C10_UnaryForm ==
    \A op \in Operators, e \in InnerExprs :
        LET x == EvaluateExpression(EmptyDict, e)
        IN  (/\ nread > 0 /\ line = DefText(<<"n">>, UnaryText(op, e))
             /\ x.ok /\ IsNum(x.val) /\ ~(op = "/" /\ x.val.n = 0))
            => (/\ pc # "raised" /\ <<"n">> \in DOMAIN constants
                /\ constants[<<"n">>] = UnaryMeaning(op, x.val))

\* the whole line is "<identifier> = <value>;" and ends with the semicolon
HasPairShape(ln) ==
    LET k == IdentRun(ln, 1)
    IN  /\ k >= 1 /\ Len(ln) >= k + 5
        /\ SubSeq(ln, k + 1, k + 3) = <<" ", "=", " ">>
        /\ ln[Len(ln)] = ";"

\* C11: a line handled as a key-value pair of the open block is accepted
\* only when the whole stripped line is "<identifier> = <value>;"; any other
\* line (no semicolon, "==", no spaces around "=", text after the
\* semicolon) makes parse fail with SyntaxError.
C11_StrictKeyValue ==
    [][(/\ ReadsLine /\ current_dict # None
        /\ ~IsSkipped(line') /\ ~IsDef(line') /\ ~IsOpen(line') /\ ~IsClose(line')
        /\ ~HasPairShape(line'))
       => (/\ pc' = "raised" /\ err'.kind = "SyntaxError"
           /\ current_dict' = current_dict)]_vars

\* C12: while a block is open, a line that is not blank, not a comment and
\* starts with neither "@{" nor "}" is handled as a key-value pair: it
\* either gets an entry into the block body or fails with SyntaxError; and
\* no line read while a block is open changes the Constant Table.
C12_BlockLinesAreKeyValues ==
    [][(ReadsLine /\ current_dict # None)
       => /\ constants' = constants
          /\ (~IsSkipped(line') /\ ~IsOpen(line') /\ ~IsClose(line'))
                => \/ /\ pc' = "raised" /\ err'.kind = "SyntaxError"
                      /\ current_dict' = current_dict
                   \/ /\ pc' = "loop" /\ current_dict' # None
                      /\ \E k \in DOMAIN current_dict'[1] :
                            current_dict' = Some(DictSet(current_dict[1], k,
                                                         current_dict'[1][k]))]_vars

\* C13 as stated: after "def n := v" with a digit literal v, a later
\* declaration of m succeeds and uses the value of n, whether n is an operand
\* of a binary form ("#(+ n 1)"), the whole expression ("def m := n") or the
\* operand of a unary form ("#(- n)").
C13_EveryReferenceResolves ==
    [][(/\ ReadsLine
        /\ <<"n">> \in DOMAIN declared /\ IsDigit(declared[<<"n">>]))
       => LET v == DigitsValue(declared[<<"n">>])
              Stores(x) == pc' = "loop" /\ constants' = DictSet(constants, <<"m">>, IntV(x))
          IN  /\ line' = DefText(<<"m">>, EAddN1) => Stores(v + 1)
              /\ line' = DefText(<<"m">>, EName) => Stores(v)
              /\ line' = DefText(<<"m">>, UnaryText("-", EName)) => Stores(0 - v)]_vars

\* C13: after "def n := v" with a digit literal v, a later declaration
\* "def m := #(+ n 1)" succeeds and stores v + 1; the declarations
\* "def m := n" and "def m := #(- n)" fail with SyntaxError "Invalid
\* expression" and leave the Constant Table as it is.
C13_ReferenceAsBinaryOperand ==
    [][(/\ ReadsLine
        /\ <<"n">> \in DOMAIN declared /\ IsDigit(declared[<<"n">>]))
       => LET v == DigitsValue(declared[<<"n">>])
          IN  /\ line' = DefText(<<"m">>, EAddN1)
                    => /\ pc' = "loop"
                       /\ constants' = DictSet(constants, <<"m">>, IntV(v + 1))
              /\ line' \in {DefText(<<"m">>, EName),
                            DefText(<<"m">>, UnaryText("-", EName))}
                    => /\ pc' = "raised"
                       /\ err' = SyntaxErr("Invalid expression")
                       /\ constants' = constants]_vars

C13_Witness ==
    /\ pc = "loop" /\ line = DefText(<<"m">>, EAddN1)
    /\ <<"n">> \in DOMAIN declared /\ declared[<<"n">>] = EFive
    /\ <<"m">> \in DOMAIN constants /\ constants[<<"m">>] = IntV(6)

\* "#(<op> <l> <r>)"
BinaryText(op, l, r) == <<"#", "(", op, " ">> \o l \o <<" ">> \o r \o <<")">>

\* operands: digit literals, names, parenthesised sub-expressions
OperandTexts ==
    {<<"1">>, <<"2">>, <<"3">>, <<"4">>, <<"n">>, <<"c">>, <<"x">>,
     <<"(", "1", ")">>, BinaryText("+", <<"1">>, <<"2">>)}

\* l op r on integers, the true quotient for "/"
BinaryMeaning(op, a, b) ==
    CASE op = "+" -> IntV(a + b)
      [] op = "-" -> IntV(a - b)
      [] op = "*" -> IntV(a * b)
      [] op = "/" -> Frac(a, b)

\* C14: "def n := #(<op> l r)" with l and r each a digit literal or a known
\* constant holding an integer stores l op r (the true quotient for "/",
\* divisor not 0); when l or r is neither a digit literal nor a known
\* constant (a parenthesised sub-expression included) the declaration fails
\* with SyntaxError "Unknown variable or value" and the Constant Table stays
\* as it is.
C14_BinaryForm ==
    [][\A op \in Operators, l \in OperandTexts, r \in OperandTexts :
         (ReadsLine /\ line' = DefText(<<"n">>, BinaryText(op, l, r)))
         => LET Known(t) == IsDigit(t)
                                \/ (t \in DOMAIN constants /\ constants[t].t = "int")
                Unknown(t) == ~IsDigit(t) /\ t \notin DOMAIN constants
                Val(t) == IF IsDigit(t) THEN DigitsValue(t) ELSE constants[t].n
            IN  /\ (Known(l) /\ Known(r) /\ ~(op = "/" /\ Val(r) = 0))
                      => /\ pc' = "loop"
                         /\ constants' = DictSet(constants, <<"n">>,
                                                 BinaryMeaning(op, Val(l), Val(r)))
                /\ (Unknown(l) \/ Unknown(r))
                      => /\ pc' = "raised"
                         /\ err' = SyntaxErr("Unknown variable or value")
                         /\ constants' = constants]_vars

\* value tokens of the key-value lines
ValueTokens ==
    {<<"1">>, <<"0", "0", "7">>, <<"1", ".", "5">>,
     <<"[", "[", "a", "b", "]", "]">>, <<"n">>, <<"c">>, <<"x">>}

\* the position of the point of a "<digits>.<digits>" token, 0 for any other
PointOf(v) ==
    LET ps == {p \in 2..(Len(v) - 1) :
                 /\ v[p] = "." /\ IsDigit(SubSeq(v, 1, p - 1))
                 /\ IsDigit(SubSeq(v, p + 1, Len(v)))}
    IN  IF ps = {} THEN 0 ELSE CHOOSE p \in ps : TRUE

\* the number a "<digits>.<digits>" token with its point at p denotes
DecimalValue(v, p) ==
    Frac(DigitsValue(SubSeq(v, 1, p - 1)) * Pow10(Len(v) - p)
            + DigitsValue(SubSeq(v, p + 1, Len(v))),
         Pow10(Len(v) - p))

IsBracketed(v) ==
    /\ Len(v) >= 4 /\ SubSeq(v, 1, 2) = <<"[", "[">>
    /\ SubSeq(v, Len(v) - 1, Len(v)) = <<"]", "]">>

\* C15: a line "<key> = <value>;" handled as a key-value pair stores under
\* the key: the Integer of an all-digit token, the Float of a
\* "<digits>.<digits>" token, the String between "[[" and "]]", the stored
\* value of a known constant; any other token fails with SyntaxError
\* "Invalid value" and the block body stays as it is.
C15_ValueClassification ==
    [][\A k \in Keys, v \in ValueTokens :
         (/\ ReadsLine /\ current_dict # None
          /\ line' = KeyValueText(k, v) /\ ~IsDef(line'))
         => LET Stores(x) ==
                    /\ pc' = "loop"
                    /\ current_dict' = Some(DictSet(current_dict[1], k, x))
            IN  IF IsDigit(v) THEN Stores(IntV(DigitsValue(v)))
                ELSE IF PointOf(v) # 0 THEN Stores(DecimalValue(v, PointOf(v)))
                ELSE IF IsBracketed(v)
                THEN Stores(StrV(CodePoints(SubSeq(v, 3, Len(v) - 2))))
                ELSE IF v \in DOMAIN constants THEN Stores(constants[v])
                ELSE /\ pc' = "raised" /\ err' = SyntaxErr("Invalid value")
                     /\ current_dict' = current_dict]_vars

C15_Witness ==
    /\ pc = "loop" /\ line = LJayString /\ current_dict # None
    /\ <<"j">> \in DOMAIN current_dict[1]
    /\ current_dict[1][<<"j">>] = StrV(<<Ord("a"), Ord("b")>>)

\* C16: when the input ends while a block is open, parse returns without an
\* error the Document built so far; the Document gets an entry only when a
\* block is closed (the body of that block, under a new name), so the pairs
\* of the unterminated block are in no entry and it gets no name.
C16_UnterminatedBlockDropped ==
    [][/\ (pc = "loop" /\ pc' = "returned" /\ current_dict # None)
            => /\ err' = NoErr /\ result' = Some(parsed_data)
               /\ parsed_data' = parsed_data
       /\ (pc = "loop" /\ parsed_data' # parsed_data)
            => /\ ClosesBlock
               /\ \E nm \in DOMAIN parsed_data' \ DOMAIN parsed_data :
                    parsed_data' = DictSet(parsed_data, nm, current_dict[1])]_vars

C16_Witness ==
    /\ pc = "returned" /\ err = NoErr /\ result # None
    /\ current_dict # None /\ DOMAIN current_dict[1] # {}
    /\ DOMAIN result[1] = {DictName(1)}
    /\ \A k \in DOMAIN current_dict[1] : k \notin DOMAIN result[1][DictName(1)]

\* the body a sequence of pairs leaves when a later pair replaces an earlier
\* pair of the same key
LastWins(w) ==
    [k \in {w[i].key : i \in 1..Len(w)} |->
        LET last == CHOOSE i \in 1..Len(w) :
                        /\ w[i].key = k
                        /\ \A j \in (i + 1)..Len(w) : w[j].key # k
        IN  w[last].val]

\* C17: a key-value line whose key the open block already holds raises no
\* error; the body of the open block has, for each key put into it, one
\* entry with the value of the last line that used the key, and this body is
\* what a close inserts into the Document.
C17_RepeatedKeyOverwrites ==
    [][/\ \A k \in Keys, v \in ValueTokens \ {<<"x">>} :
            (/\ ReadsLine /\ current_dict # None
             /\ line' = KeyValueText(k, v) /\ ~IsDef(line')
             /\ k \in DOMAIN current_dict[1]
             /\ (v \in ConstNames => v \in DOMAIN constants))
            => (/\ pc' = "loop" /\ err' = NoErr
                /\ DOMAIN current_dict'[1] = DOMAIN current_dict[1])
       /\ current_dict' # None => current_dict'[1] = LastWins(written')
       /\ ClosesBlock
            => \E nm \in DOMAIN parsed_data' \ DOMAIN parsed_data :
                    parsed_data'[nm] = LastWins(written)]_vars

C17_Witness ==
    /\ pc = "loop" /\ line = LClose /\ current_dict = None
    /\ written = <<[key |-> <<"j">>, val |-> FloatV(3, 2)],
                   [key |-> <<"j">>, val |-> StrV(<<Ord("a"), Ord("b")>>)]>>
    /\ parsed_data = DictSet(EmptyDict, DictName(1),
                             DictSet(EmptyDict, <<"j">>, StrV(<<Ord("a"), Ord("b")>>)))

====
